---- MODULE Spec2Model ----
(***************************************************************************)
(* A model of src/bluez/adapter/peripheral.rs: the BlueZ peripheral.       *)
(*                                                                         *)
(* One notification thread runs properties_changed and update_properties   *)
(* on the change batches the transport delivers; caller threads run        *)
(* connect, discover_characteristics_in_range, the getters and the GATT    *)
(* operations.  The four mutexes of the struct (properties,                *)
(* attributes_map, characteristics, state) are modelled by their owner; a  *)
(* thread that needs a held mutex cannot take its step.                    *)
(*                                                                         *)
(* Assumptions on the inputs: attribute handles are in 1..0xFFFF (GATT     *)
(* handle 0 is reserved), attribute paths parse, and the command sink      *)
(* answers connect() within the 30 second budget.  The values of a batch   *)
(* are well-formed except in PathSpec and PropsSpec, which also deliver    *)
(* values of another type.                                                 *)
(***************************************************************************)
EXTENDS Integers, Sequences, FiniteSets, TLC

(* ---------------------------------------------------------------- bounds *)
NumCallers == 1
NumWaiters == 2
MaxHandle == 1
MaxRegistryHandle == 3
MaxUpdates == 2
MaxTokens == 2
HistLen == 3
MaxEntries == 2
MaxDelivered == 3

(* ------------------------------------------------------------- constants *)
U16Max == 65535

Callers == {<<"caller", i>> : i \in 1..NumCallers}
Waiters == {<<"caller", i>> : i \in 1..NumWaiters}
Notif == <<"notif", 0>>
NoThread == <<"none", 0>>

Handles == 1..MaxHandle
RegistryHandles == 1..MaxRegistryHandle
UUIDs == {"uuidA"}
GattUUIDs == {"uuidA", "uuidB"}
GattOps == {"read", "command"}
SinkResults == {"Ok", "Transport"}
AttributeTypes == {"Service", "Characteristic", "Descriptor", "Unknown"}
RangedTypes == {"Service", "Characteristic"}
LockNames == {"properties", "attributes_map", "characteristics", "state"}
ArgValues == {"absent", "true", "false"}
Batches == [connected : ArgValues, services_resolved : ArgValues]
NoBatch == [connected |-> "absent", services_resolved |-> "absent"]
SinkReplies == {"Ok", "AlreadyConnected", "Failed", "Other"}
Ranges == {<<1, U16Max>>, <<2, 2>>}
NoRange == <<0, 0>>

\* a boolean key of a batch may also carry a value that is not a boolean
MalformedArgValues == ArgValues \cup {"malformed"}
PropBatches == [connected : MalformedArgValues, services_resolved : MalformedArgValues]

\* "ManufacturerData": a dictionary of entries id -> Variant(array of bytes);
\* an entry may carry a value that is no array, and the key itself a value
\* that cannot be iterated
ManufacturerEntries ==
    {[id |-> 4660, shape |-> "bytes", data |-> <<170, 187>>],
     [id |-> 255, shape |-> "bytes", data |-> <<>>],
     [id |-> 4660, shape |-> "scalar", data |-> <<>>]}
ManufacturerValues ==
    {[kind |-> k, entries |-> <<>>] : k \in {"absent", "scalar"}}
       \cup {[kind |-> "dict", entries |-> e] :
                e \in UNION {[1..n -> ManufacturerEntries] : n \in 0..MaxEntries}}
\* "AddressType": absent, a string that parses, a string that does not, or a
\* value that is no string
AddressTypeValues == {"absent", "random", "bogus", "nonstring"}
PropArgs == [manufacturer_data : ManufacturerValues, address_type : AddressTypeValues]
NoProps == [manufacturer_data |-> [kind |-> "absent", entries |-> <<>>],
            address_type |-> "absent"]
\* PeripheralProperties::default(): no manufacturer data, the default address type
DefaultProperties == [manufacturer_data |-> {}, address_type |-> "Default"]
\* the paths a change batch can carry: the peripheral's own, one of its
\* attributes (parses as a Handle), another below it, one of another object
PathKinds == {"own", "attribute", "below", "foreign"}

VARIABLES
    state,            \* the PeripheralState in the state mutex
    attributes_map,   \* the registry: handle -> [typ, uuid]
    characteristics,  \* the cached characteristic set
    discovery_count,  \* properties.discovery_count
    locks,            \* mutex -> the thread that holds it
    npc,              \* where the notification thread is in update_properties
    args,             \* the batch the notification thread is processing
    order,            \* the registry's iteration order during a rebuild
    lastBuild,        \* history: the set the last completed rebuild produced
    pc,               \* caller -> where it is
    reply,            \* caller -> the sink's answer to its connect command
    woken,            \* caller -> a notify_all reached it while it slept
    range,            \* caller -> the <<start, end>> of its discover call
    ret,              \* caller -> what its call returned
    arg,              \* caller -> the characteristic (and uuid) of its GATT call
    call,             \* caller -> the command it has in flight at the sink
    listen_token,     \* the stored Option<Token>: {} or {token}
    matches,          \* the match rules registered at the transport
    next_token,       \* the tokens the transport has handed out
    calls,            \* history: the last listen/stop_listening calls
    properties,       \* the PeripheralProperties in the properties mutex
    poisoned,         \* the properties mutex is poisoned: a holder panicked
    pargs,            \* the property keys of the batch being processed
    delivered         \* history: how many batches were delivered, the last one's path

vars == <<state, attributes_map, characteristics, discovery_count, locks, npc,
          args, order, lastBuild, pc, reply, woken, range, ret, arg, call,
          listen_token, matches, next_token, calls, properties, poisoned,
          pargs, delivered>>

notifVars == <<state, attributes_map, characteristics, discovery_count, npc,
               args, order, lastBuild>>
callerVars == <<pc, reply, range, ret>>
gattVars == <<arg, call>>
listenVars == <<listen_token, matches, next_token, calls>>
propVars == <<properties, poisoned, pargs, delivered>>

(* ------------------------------------------------------- PeripheralState *)
Rank(s) ==
    CASE s = "NotConnected" -> 0
      [] s = "Connected" -> 1
      [] s = "ServicesResolved" -> 2

NoRet == [op |-> "none", err |-> "none", val |-> {}]
NoArg == [op |-> "none", via |-> "none", value_handle |-> 0, start_handle |-> 0,
          end_handle |-> 0, uuid |-> "none"]
NoCall == [op |-> "none", path |-> <<"path", 0>>]
Ret(o, e, v) == [op |-> o, err |-> e, val |-> v]

Free(l) == locks[l] = NoThread
Acquire(l, t) == [locks EXCEPT ![l] = t]
Release(l) == [locks EXCEPT ![l] = NoThread]

(* ----------------------------------------------------------- the registry *)
\* The sequences that enumerate the set S once each: the orders in which a
\* HashMap with keys S can be iterated.
Perms(S) ==
    {s \in [1..Cardinality(S) -> S] : \A i, j \in 1..Cardinality(S) : s[i] = s[j] => i = j}

\* handle - 1 on u16 (release build: wraps)
U16Pred(h) == (h + U16Max) % (U16Max + 1)

\* handles.iter().filter(typ == t): the entries of one type, in iteration order
Stream(map, ord, t) == SelectSeq(ord, LAMBDA h : map[h].typ = t)

\* One while-let loop of build_characteristic_ranges over a peekable stream.
RangeRecords(map, s) ==
    {[start_handle |-> s[i],
      end_handle |-> IF i < Len(s) THEN U16Pred(s[i + 1]) ELSE U16Max,
      value_handle |-> s[i],
      uuid |-> map[s[i]].uuid] : i \in 1..Len(s)}

\* .filter(|c| c.value_handle >= _start && c.value_handle <= _end)
InRange(set, r) == {c \in set : c.value_handle >= r[1] /\ c.value_handle <= r[2]}

(* ------------------------------------------------------------------ Init *)
InitWith(T) ==
    /\ state = "NotConnected"
    /\ attributes_map = <<>>
    /\ characteristics = {}
    /\ discovery_count = 0
    /\ locks = [l \in LockNames |-> NoThread]
    /\ npc = "idle"
    /\ args = NoBatch
    /\ order = <<>>
    /\ lastBuild = {}
    /\ pc = [c \in T |-> "idle"]
    /\ reply = [c \in T |-> "none"]
    /\ woken = [c \in T |-> FALSE]
    /\ range = [c \in T |-> NoRange]
    /\ ret = [c \in T |-> NoRet]
    /\ arg = [c \in T |-> NoArg]
    /\ call = [c \in T |-> NoCall]
    /\ listen_token = {}
    /\ matches = {}
    /\ next_token = 0
    /\ calls = <<>>
    /\ properties = DefaultProperties
    /\ poisoned = FALSE
    /\ pargs = NoProps
    /\ delivered = <<0, "none">>

Init == InitWith(Callers)

(* ---------------------------------------------------------- add_attribute *)
AddAttribute(h, t, u) ==
    /\ Free("attributes_map")
    /\ attributes_map' =
          [k \in DOMAIN attributes_map \cup {h} |->
              IF k = h THEN [typ |-> t, uuid |-> u] ELSE attributes_map[k]]
    /\ UNCHANGED <<state, characteristics, discovery_count, locks, npc, args,
                   order, lastBuild, woken>>
    /\ UNCHANGED <<callerVars, gattVars, listenVars, propVars>>

(* ------------------------------------------------------------ properties *)
\* put_u16 in network order: the high byte first
PutU16Be(v) == <<(v \div 256) % 256, v % 256>>

\* put_u16_le: the low byte first
PutU16Le(v) == <<v % 256, (v \div 256) % 256>>

\* b.as_u64().unwrap() as u8
AsU8(b) == b % 256

\* lines 285-302: the loop over the entries of the dictionary, each adding
\* its id and its bytes to the result
RECURSIVE ManufacturerBlob(_)
ManufacturerBlob(entries) ==
    IF entries = <<>> THEN <<>>
    ELSE LET e == entries[Len(entries)]
         IN ManufacturerBlob(SubSeq(entries, 1, Len(entries) - 1))
               \o PutU16Le(e.id % (U16Max + 1))
               \o [i \in 1..Len(e.data) |-> AsU8(e.data[i])]

\* the unwrap()s of lines 289-295 on an entry whose value is no array
ManufacturerPanics(m) ==
    m.kind = "dict" /\ \E i \in 1..Len(m.entries) : m.entries[i].shape = "scalar"

\* lines 313-316: as_str, from_str, and the default for what neither gives
AddressTypeOf(v) == IF v = "random" THEN "Random" ELSE "Default"

\* lines 276-317 on the properties under the guard
ApplyProps(props, p) ==
    [manufacturer_data |->
        IF p.manufacturer_data.kind = "absent" THEN props.manufacturer_data
        ELSE {ManufacturerBlob(p.manufacturer_data.entries)},
     address_type |->
        IF p.address_type = "absent" THEN props.address_type
        ELSE AddressTypeOf(p.address_type)]

(* ------------------------------------------------------ update_properties *)
\* cvar.notify_all(): every thread asleep on the condition variable is woken
Sleeping(c) == pc[c] \in {"connect_sleep", "discover_sleep"}

\* cvar.notify_one(): one of the sleepers is woken
NotifyOne ==
    [c \in DOMAIN pc |->
        woken[c] \/ (Sleeping(c) /\ c = CHOOSE d \in DOMAIN pc : Sleeping(d))]

NotifyAll == [c \in DOMAIN pc |-> woken[c] \/ Sleeping(c)]

\* where update_properties goes after the "Connected" key: lines 250-262
AfterConnected(b) ==
    CASE b.services_resolved = "true" -> "build"
      [] b.services_resolved = "false" -> "notify"
      [] b.services_resolved = "malformed" -> "resolved_unwrap"
      [] OTHER -> "rest"

\* a transition that follows the notification alone, whatever the state
ConnectedFollowsNotification(s, v) == IF v = "true" THEN "Connected" ELSE "NotConnected"

\* lines 237-241
ConnectedTransition(s, v) ==
    IF v = "true" /\ s = "NotConnected" THEN "Connected"
    ELSE IF v = "false" THEN "NotConnected"
    ELSE s

\* lines 225-227: the properties mutex is taken and kept to the end of the
\* function, the counter incremented
UpdateStart(b, p) ==
    /\ npc = "idle"
    /\ Free("properties")
    /\ ~poisoned
    /\ locks' = Acquire("properties", Notif)
    /\ discovery_count' = discovery_count + 1
    /\ args' = b
    /\ pargs' = p
    /\ npc' = IF b.connected = "absent" THEN AfterConnected(b) ELSE "connected"
    /\ UNCHANGED <<state, attributes_map, characteristics, order, lastBuild, woken>>
    /\ UNCHANGED <<properties, poisoned>>
    /\ UNCHANGED <<callerVars, gattVars, listenVars>>

\* a batch of the peripheral's own path with the two state keys alone
UpdateBegin(b) ==
    /\ discovery_count < MaxUpdates
    /\ UpdateStart(b, NoProps)
    /\ UNCHANGED delivered

UpdateConnected ==
    /\ npc = "connected"
    /\ args.connected \in {"true", "false"}
    /\ Free("state")
    /\ state' = ConnectedTransition(state, args.connected)
    /\ woken' = NotifyAll
    /\ npc' = AfterConnected(args)
    /\ UNCHANGED <<attributes_map, characteristics, discovery_count, locks, args,
                   order, lastBuild>>
    /\ UNCHANGED <<callerVars, gattVars, listenVars, propVars>>

\* build_characteristic_ranges, line 177: the registry is locked
BuildBegin ==
    /\ npc = "build"
    /\ Free("attributes_map")
    /\ locks' = Acquire("attributes_map", Notif)
    /\ npc' = "build_clear"
    /\ UNCHANGED <<state, attributes_map, characteristics, discovery_count, args,
                   order, lastBuild, woken>>
    /\ UNCHANGED <<callerVars, gattVars, listenVars, propVars>>

\* the set cleared under a guard that is dropped at once
BuildClearUnlocked ==
    /\ npc = "build_clear"
    /\ Free("characteristics")
    /\ characteristics' = {}
    /\ \E o \in Perms(DOMAIN attributes_map) : order' = o
    /\ npc' = "build_services"
    /\ UNCHANGED <<state, attributes_map, discovery_count, locks, args, lastBuild, woken>>
    /\ UNCHANGED <<callerVars, gattVars, listenVars, propVars>>

\* the set locked but not cleared: the records of the rebuild before stay
BuildKeepsCache ==
    /\ npc = "build_clear"
    /\ Free("characteristics")
    /\ locks' = Acquire("characteristics", Notif)
    /\ \E o \in Perms(DOMAIN attributes_map) : order' = o
    /\ npc' = "build_services"
    /\ UNCHANGED <<state, attributes_map, characteristics, discovery_count, args,
                   lastBuild, woken>>
    /\ UNCHANGED <<callerVars, gattVars, listenVars, propVars>>

\* lines 185-186: the set is locked and cleared
BuildClear ==
    /\ npc = "build_clear"
    /\ Free("characteristics")
    /\ locks' = Acquire("characteristics", Notif)
    /\ characteristics' = {}
    /\ \E o \in Perms(DOMAIN attributes_map) : order' = o
    /\ npc' = "build_services"
    /\ UNCHANGED <<state, attributes_map, discovery_count, args, lastBuild, woken>>
    /\ UNCHANGED <<callerVars, gattVars, listenVars, propVars>>

\* lines 189-198
BuildServices ==
    /\ npc = "build_services"
    /\ characteristics' = characteristics \cup
          RangeRecords(attributes_map, Stream(attributes_map, order, "Service"))
    /\ npc' = "build_characteristics"
    /\ UNCHANGED <<state, attributes_map, discovery_count, locks, args, order,
                   lastBuild, woken>>
    /\ UNCHANGED <<callerVars, gattVars, listenVars, propVars>>

\* the second loop with the guard of the set kept for the state change that
\* follows: the rebuild and the transition as one critical section
BuildCharacteristicsKeepsGuard ==
    /\ npc = "build_characteristics"
    /\ characteristics' = characteristics \cup
          RangeRecords(attributes_map, Stream(attributes_map, order, "Characteristic"))
    /\ lastBuild' = characteristics'
    /\ order' = <<>>
    /\ locks' = Release("attributes_map")
    /\ npc' = "set_resolved"
    /\ UNCHANGED <<state, attributes_map, discovery_count, args, woken>>
    /\ UNCHANGED <<callerVars, gattVars, listenVars, propVars>>

\* lines 206-217: the second loop, then both guards are dropped
BuildCharacteristics ==
    /\ npc = "build_characteristics"
    /\ characteristics' = characteristics \cup
          RangeRecords(attributes_map, Stream(attributes_map, order, "Characteristic"))
    /\ lastBuild' = characteristics'
    /\ order' = <<>>
    /\ locks' = [locks EXCEPT !["attributes_map"] = NoThread,
                              !["characteristics"] = NoThread]
    /\ npc' = "set_resolved"
    /\ UNCHANGED <<state, attributes_map, discovery_count, args, woken>>
    /\ UNCHANGED <<callerVars, gattVars, listenVars, propVars>>

\* line 259: the state mutex is taken for the one assignment
SetResolved ==
    /\ npc = "set_resolved"
    /\ Free("state")
    /\ state' = "ServicesResolved"
    /\ npc' = "notify"
    /\ UNCHANGED <<attributes_map, characteristics, discovery_count, locks, args,
                   order, lastBuild, woken>>
    /\ UNCHANGED <<callerVars, gattVars, listenVars, propVars>>

\* a services-resolved=false that takes the state back to Connected
ResolvedNotifyDowngrades ==
    /\ npc = "notify"
    /\ state' = IF args.services_resolved = "false" /\ state = "ServicesResolved"
                   THEN "Connected" ELSE state
    /\ woken' = NotifyAll
    /\ npc' = "rest"
    /\ UNCHANGED <<attributes_map, characteristics, discovery_count, locks,
                   args, order, lastBuild>>
    /\ UNCHANGED <<callerVars, gattVars, listenVars, propVars>>

\* line 261
ResolvedNotify ==
    /\ npc = "notify"
    /\ woken' = NotifyAll
    /\ npc' = "rest"
    /\ UNCHANGED <<state, attributes_map, characteristics, discovery_count, locks,
                   args, order, lastBuild>>
    /\ UNCHANGED <<callerVars, gattVars, listenVars, propVars>>

\* lines 276-323, then the properties guard is dropped
UpdateEnd ==
    /\ npc = "rest"
    /\ ~ManufacturerPanics(pargs.manufacturer_data)
    /\ properties' = ApplyProps(properties, pargs)
    /\ locks' = Release("properties")
    /\ args' = NoBatch
    /\ pargs' = NoProps
    /\ npc' = "idle"
    /\ UNCHANGED <<state, attributes_map, characteristics, discovery_count, order,
                   lastBuild, woken>>
    /\ UNCHANGED <<poisoned, delivered>>
    /\ UNCHANGED <<callerVars, gattVars, listenVars>>

\* the unwrap() of line 230, 251 or 289-299 on a value of another type: the
\* thread panics, the properties guard is dropped during the unwinding and
\* the mutex is poisoned; what the batch had left to apply is not applied
UpdatePanics ==
    \/ npc = "connected" /\ args.connected = "malformed"
    \/ npc = "resolved_unwrap"
    \/ npc = "rest" /\ ManufacturerPanics(pargs.manufacturer_data)

UpdatePanic ==
    /\ UpdatePanics
    /\ poisoned' = TRUE
    /\ locks' = Release("properties")
    /\ args' = NoBatch
    /\ pargs' = NoProps
    /\ npc' = "idle"
    /\ UNCHANGED <<state, attributes_map, characteristics, discovery_count, order,
                   lastBuild, woken>>
    /\ UNCHANGED <<properties, delivered>>
    /\ UNCHANGED <<callerVars, gattVars, listenVars>>

\* a dispatch that hands every batch below the peripheral's path to
\* update_properties, attribute or not
PropertiesChangedAnyHandle(k, b, p) ==
    /\ npc = "idle"
    /\ delivered[1] < MaxDelivered
    /\ delivered' = <<delivered[1] + 1, k>>
    /\ IF k \in {"own", "below", "attribute"} /\ ~poisoned
          THEN UpdateStart(b, p)
          ELSE /\ UNCHANGED <<notifVars, locks, woken, properties, poisoned, pargs>>
               /\ UNCHANGED <<callerVars, gattVars, listenVars>>

\* properties_changed, lines 98-117: a batch of the peripheral's own path, or
\* of a path below it that is no attribute handle, goes to update_properties;
\* a batch of an attribute and a batch of another object are logged.  With
\* the mutex poisoned, lock().unwrap() at line 225 panics
PropertiesChanged(k, b, p) ==
    /\ npc = "idle"
    /\ delivered[1] < MaxDelivered
    /\ delivered' = <<delivered[1] + 1, k>>
    /\ IF k \in {"own", "below"} /\ ~poisoned
          THEN UpdateStart(b, p)
          ELSE /\ UNCHANGED <<notifVars, locks, woken, properties, poisoned, pargs>>
               /\ UNCHANGED <<callerVars, gattVars, listenVars>>

(* ---------------------------------------------------------------- connect *)
\* lines 400-415: the sink's answer decides whether connect goes on to wait
ConnectCommandResult(r) ==
    CASE r = "Ok" -> "Ok"
      [] r = "AlreadyConnected" -> "Ok"
      [] r = "Failed" -> "NotConnected"
      [] OTHER -> "Other"

\* lines 421-425: what connect returns from the LockResult of
\* wait_timeout_while.  The state mutex is never poisoned, so the result is
\* Ok((guard, WaitTimeoutResult)) whether or not the wait timed out, and
\* map_err never runs.
ConnectWaitResult(timed_out) == "Ok"

\* the predicate of wait_timeout_while, line 422
ConnectBlocks(s) == Rank(s) < Rank("Connected")

ConnectCall(c, r) ==
    /\ pc[c] = "idle"
    /\ IF ConnectCommandResult(r) = "Ok"
          THEN /\ pc' = [pc EXCEPT ![c] = "connect_wait"]
               /\ reply' = [reply EXCEPT ![c] = r]
               /\ ret' = [ret EXCEPT ![c] = NoRet]
          ELSE /\ pc' = [pc EXCEPT ![c] = "done"]
               /\ reply' = [reply EXCEPT ![c] = "none"]
               /\ ret' = [ret EXCEPT ![c] = Ret("connect", ConnectCommandResult(r), {})]
    /\ UNCHANGED <<locks, woken, range>>
    /\ UNCHANGED <<notifVars, gattVars, listenVars, propVars>>

\* wait_timeout_while: the predicate is tested under the state mutex.  While
\* it holds and time is left the thread sleeps, the mutex released; when it
\* holds and the time is up, the wait ends with WaitTimeoutResult(true).
ConnectCheck(c, time_up) ==
    /\ Free("state")
    /\ IF ~ConnectBlocks(state) \/ time_up
          THEN /\ pc' = [pc EXCEPT ![c] = "done"]
               /\ ret' = [ret EXCEPT ![c] =
                             Ret("connect", ConnectWaitResult(ConnectBlocks(state)), {})]
               /\ reply' = [reply EXCEPT ![c] = "none"]
          ELSE /\ pc' = [pc EXCEPT ![c] = "connect_sleep"]
               /\ UNCHANGED <<ret, reply>>
    /\ woken' = [woken EXCEPT ![c] = FALSE]
    /\ UNCHANGED <<locks, range>>
    /\ UNCHANGED <<notifVars, gattVars, listenVars, propVars>>

ConnectEnter(c) ==
    /\ pc[c] = "connect_wait"
    /\ ConnectCheck(c, FALSE)

ConnectWake(c) ==
    /\ pc[c] = "connect_sleep"
    /\ woken[c]
    /\ ConnectCheck(c, FALSE)

\* a condition variable may wake a sleeper that nobody notified
ConnectSpuriousWake(c) ==
    /\ pc[c] = "connect_sleep"
    /\ ~woken[c]
    /\ ConnectCheck(c, FALSE)

\* the deadline of the wait passes while the thread sleeps
ConnectTimeout(c) ==
    /\ pc[c] = "connect_sleep"
    /\ ConnectCheck(c, TRUE)

(* ------------------------------------- discover_characteristics_in_range *)
\* a wait that lasts until the services are resolved, whatever the state
DiscoverBlocksUntilResolved(s) == s # "ServicesResolved"

\* the predicate of wait_while, line 444
DiscoverBlocks(s) == s = "Connected"

\* wait_while, then line 447.  The guard is kept (_guard) to the end of the
\* function: the thread that goes on to read the set still holds the state mutex.
DiscoverCheck(c, r) ==
    /\ Free("state")
    /\ IF DiscoverBlocks(state)
          THEN /\ pc' = [pc EXCEPT ![c] = "discover_sleep"]
               /\ range' = [range EXCEPT ![c] = r]
               /\ UNCHANGED <<ret, locks>>
          ELSE IF state = "NotConnected"
          THEN /\ pc' = [pc EXCEPT ![c] = "done"]
               /\ ret' = [ret EXCEPT ![c] = Ret("discover", "NotConnected", {})]
               /\ range' = [range EXCEPT ![c] = NoRange]
               /\ UNCHANGED locks
          ELSE /\ pc' = [pc EXCEPT ![c] = "discover_read"]
               /\ range' = [range EXCEPT ![c] = r]
               /\ locks' = Acquire("state", c)
               /\ UNCHANGED ret
    /\ woken' = [woken EXCEPT ![c] = FALSE]
    /\ UNCHANGED reply
    /\ UNCHANGED <<notifVars, gattVars, listenVars, propVars>>

DiscoverCall(c, r) ==
    /\ pc[c] = "idle"
    /\ DiscoverCheck(c, r)

DiscoverWake(c) ==
    /\ pc[c] = "discover_sleep"
    /\ woken[c]
    /\ DiscoverCheck(c, range[c])

DiscoverSpuriousWake(c) ==
    /\ pc[c] = "discover_sleep"
    /\ ~woken[c]
    /\ DiscoverCheck(c, range[c])

\* lines 453-460: the set is cloned under its mutex and filtered
DiscoverRead(c) ==
    /\ pc[c] = "discover_read"
    /\ Free("characteristics")
    /\ ret' = [ret EXCEPT ![c] = Ret("discover", "Ok", InRange(characteristics, range[c]))]
    /\ pc' = [pc EXCEPT ![c] = "done"]
    /\ range' = [range EXCEPT ![c] = NoRange]
    /\ locks' = Release("state")
    /\ UNCHANGED <<reply, woken>>
    /\ UNCHANGED <<notifVars, gattVars, listenVars, propVars>>

(* ------------------------------------------- read, command, read_by_type *)
\* The registry keeps each entry's path; the model names the path of the
\* entry with handle h by the handle.
PathOf(h) == <<"path", h>>

\* the error of an operation whose characteristic has no registry entry
NotSupported(o) ==
    CASE o = "read" -> "NotSupported(read)"
      [] o = "command" -> "NotSupported(write_without_response)"
      [] o = "read_by_type" -> "NotSupported(read_by_type)"

\* the method the operation calls on the proxy
SinkMethod(o) == IF o = "command" THEN "write_value" ELSE "read_value"

\* a characteristic as the caller passes it
CharArg(o, vh, r, u) ==
    [op |-> o, via |-> o, value_handle |-> vh, start_handle |-> r[1],
     end_handle |-> r[2], uuid |-> u]

\* read(characteristic) or command(characteristic, data) is called
GattInvoke(c, o, vh) ==
    /\ pc[c] = "idle"
    /\ pc' = [pc EXCEPT ![c] = "proxy_for"]
    /\ arg' = [arg EXCEPT ![c] = CharArg(o, vh, NoRange, "none")]
    /\ UNCHANGED <<locks, woken, reply, range, ret, call>>
    /\ UNCHANGED <<notifVars, listenVars, propVars>>

\* a characteristic without a registry entry served by the proxy of the
\* peripheral itself
ProxyForFallsBack(c) ==
    /\ pc' = [pc EXCEPT ![c] = "sink"]
    /\ call' = [call EXCEPT ![c] = [op |-> SinkMethod(arg[c].op), path |-> PathOf(0)]]
    /\ UNCHANGED <<ret, arg, locks>>

\* a characteristic without a registry entry: ok_or(NotSupported), no command
ProxyForMisses(c) ==
    /\ pc' = [pc EXCEPT ![c] = "done"]
    /\ ret' = [ret EXCEPT ![c] = Ret(arg[c].via, NotSupported(arg[c].op), {})]
    /\ arg' = [arg EXCEPT ![c] = NoArg]
    /\ UNCHANGED <<call, locks>>

\* proxy_for, lines 330-336, then the command on the proxy (lines 474-477,
\* 501-504): the registry is locked for the lookup alone
ProxyFor(c) ==
    /\ pc[c] = "proxy_for"
    /\ Free("attributes_map")
    /\ IF arg[c].value_handle \in DOMAIN attributes_map
          THEN /\ pc' = [pc EXCEPT ![c] = "sink"]
               /\ call' = [call EXCEPT ![c] =
                              [op |-> SinkMethod(arg[c].op),
                               path |-> PathOf(arg[c].value_handle)]]
               /\ UNCHANGED <<ret, arg, locks>>
          ELSE ProxyForMisses(c)
    /\ UNCHANGED <<woken, reply, range>>
    /\ UNCHANGED <<notifVars, listenVars, propVars>>

\* the sink answers; the guard read_by_type holds, if any, is dropped when
\* its if-let ends
SinkReply(c, res) ==
    /\ pc[c] = "sink"
    /\ pc' = [pc EXCEPT ![c] = "done"]
    /\ ret' = [ret EXCEPT ![c] = Ret(arg[c].via, res, {})]
    /\ arg' = [arg EXCEPT ![c] = NoArg]
    /\ call' = [call EXCEPT ![c] = NoCall]
    /\ locks' = IF locks["attributes_map"] = c THEN Release("attributes_map") ELSE locks
    /\ UNCHANGED <<woken, reply, range>>
    /\ UNCHANGED <<notifVars, listenVars, propVars>>

\* read_by_type(characteristic, uuid) is called
ReadByTypeInvoke(c, r, u) ==
    /\ pc[c] = "idle"
    /\ pc' = [pc EXCEPT ![c] = "find_map"]
    /\ arg' = [arg EXCEPT ![c] = CharArg("read_by_type", 0, r, u)]
    /\ UNCHANGED <<locks, woken, reply, range, ret, call>>
    /\ UNCHANGED <<notifVars, listenVars, propVars>>

\* lines 524-526: the entries find_map accepts (an entry's placeholder
\* characteristic has value_handle = its handle)
Matching(map, a) ==
    {h \in DOMAIN map :
        map[h].uuid = a.uuid /\ h >= a.start_handle /\ h <= a.end_handle}

\* lines 518-537: the registry is locked and searched in its iteration order.
\* The guard is a temporary of the if-let: with a match it is still held when
\* read(), and so proxy_for, is called on the entry found.  proxy_for then
\* locks a mutex its own thread holds.  std::sync::Mutex leaves that
\* unspecified (the call never returns: it deadlocks or panics); the mutex of
\* Linux, the one platform of the BlueZ module, deadlocks: the thread stays
\* at proxy_for for ever, the registry locked.
ReadByTypeFind(c) ==
    /\ pc[c] = "find_map"
    /\ Free("attributes_map")
    /\ IF Matching(attributes_map, arg[c]) = {}
          THEN /\ pc' = [pc EXCEPT ![c] = "done"]
               /\ ret' = [ret EXCEPT ![c] = Ret("read_by_type", NotSupported("read_by_type"), {})]
               /\ arg' = [arg EXCEPT ![c] = NoArg]
               /\ UNCHANGED locks
          ELSE /\ \E h \in Matching(attributes_map, arg[c]) :
                     arg' = [arg EXCEPT ![c] = [@ EXCEPT !.op = "read", !.value_handle = h]]
               /\ pc' = [pc EXCEPT ![c] = "proxy_for"]
               /\ locks' = Acquire("attributes_map", c)
               /\ UNCHANGED ret
    /\ UNCHANGED <<woken, reply, range, call>>
    /\ UNCHANGED <<notifVars, listenVars, propVars>>

(* ------------------------------------------------ listen, stop_listening *)
Push(h, r) == IF Len(h) < HistLen THEN Append(h, r) ELSE Append(Tail(h), r)
Called(o, e, i) == [op |-> o, err |-> e, issued |-> i]

\* lines 122-134: the token of the new match rule replaces the stored one
Listen(res) ==
    /\ next_token < MaxTokens
    /\ IF res = "Ok"
          THEN /\ next_token' = next_token + 1
               /\ matches' = matches \cup {next_token'}
               /\ listen_token' = {next_token'}
          ELSE UNCHANGED <<next_token, matches, listen_token>>
    /\ calls' = Push(calls, Called("listen", res, TRUE))
    /\ UNCHANGED <<locks, woken>>
    /\ UNCHANGED <<notifVars, callerVars, gattVars, propVars>>

\* a stop_listening that leaves the token stored
StopListeningKeepsToken(res) ==
    /\ IF listen_token # {}
          THEN /\ matches' = IF res = "Ok" THEN matches \ listen_token ELSE matches
               /\ calls' = Push(calls, Called("stop_listening", res, TRUE))
          ELSE /\ UNCHANGED matches
               /\ calls' = Push(calls, Called("stop_listening", "Ok", FALSE))
    /\ UNCHANGED <<listen_token, next_token, locks, woken>>
    /\ UNCHANGED <<notifVars, callerVars, gattVars, propVars>>

\* lines 136-144
StopListening(res) ==
    /\ IF listen_token # {}
          THEN /\ IF res = "Ok"
                     THEN /\ matches' = matches \ listen_token
                          /\ listen_token' = {}
                     ELSE UNCHANGED <<matches, listen_token>>
               /\ calls' = Push(calls, Called("stop_listening", res, TRUE))
          ELSE /\ UNCHANGED <<matches, listen_token>>
               /\ calls' = Push(calls, Called("stop_listening", "Ok", FALSE))
    /\ UNCHANGED <<next_token, locks, woken>>
    /\ UNCHANGED <<notifVars, callerVars, gattVars, propVars>>

(* -------------------------------------------------------------- getters *)
\* is_connected, line 395
IsConnected(s) == Rank(s) >= Rank("Connected")

IsConnectedCall(c) ==
    /\ pc[c] = "idle"
    /\ Free("state")
    /\ pc' = [pc EXCEPT ![c] = "done"]
    /\ ret' = [ret EXCEPT ![c] =
                  Ret("is_connected", IF IsConnected(state) THEN "true" ELSE "false", {})]
    /\ UNCHANGED <<locks, woken, reply, range>>
    /\ UNCHANGED <<notifVars, gattVars, listenVars, propVars>>

\* properties(), lines 384-387: lock().unwrap() panics on a poisoned mutex
PropertiesCall(c) ==
    /\ pc[c] = "idle"
    /\ Free("properties")
    /\ pc' = [pc EXCEPT ![c] = "done"]
    /\ ret' = [ret EXCEPT ![c] =
                  Ret("properties", IF poisoned THEN "Panic" ELSE "Ok", {})]
    /\ UNCHANGED <<locks, woken, reply, range>>
    /\ UNCHANGED <<notifVars, gattVars, listenVars, propVars>>

\* characteristics(), lines 389-392
CharacteristicsCall(c) ==
    /\ pc[c] = "idle"
    /\ Free("characteristics")
    /\ pc' = [pc EXCEPT ![c] = "done"]
    /\ ret' = [ret EXCEPT ![c] = Ret("characteristics", "Ok", characteristics)]
    /\ UNCHANGED <<locks, woken, reply, range>>
    /\ UNCHANGED <<notifVars, gattVars, listenVars, propVars>>

\* disconnect, lines 428-430: the command is sent, the sink's answer returned
DisconnectCall(c, res) ==
    /\ pc[c] = "idle"
    /\ pc' = [pc EXCEPT ![c] = "done"]
    /\ ret' = [ret EXCEPT ![c] = Ret("disconnect", res, {})]
    /\ UNCHANGED <<locks, woken, reply, range>>
    /\ UNCHANGED <<notifVars, gattVars, listenVars, propVars>>

\* the caller takes the result and is free to call again
Return(c) ==
    /\ pc[c] = "done"
    /\ pc' = [pc EXCEPT ![c] = "idle"]
    /\ ret' = [ret EXCEPT ![c] = NoRet]
    /\ UNCHANGED <<locks, woken, reply, range>>
    /\ UNCHANGED <<notifVars, gattVars, listenVars, propVars>>

(* ------------------------------------------------------------------ Next *)
BuildStep ==
    \/ BuildBegin
    \/ BuildClear
    \/ BuildServices
    \/ BuildCharacteristics

NotifStep ==
    \/ UpdateConnected
    \/ BuildStep
    \/ SetResolved
    \/ ResolvedNotify
    \/ UpdateEnd

CallerStep(c) ==
    \/ ConnectEnter(c)
    \/ ConnectWake(c)
    \/ DiscoverWake(c)
    \/ DiscoverRead(c)

Next ==
    \/ \E b \in Batches : UpdateBegin(b)
    \/ NotifStep
    \/ \E h \in Handles, t \in RangedTypes, u \in UUIDs : AddAttribute(h, t, u)
    \/ \E c \in DOMAIN pc, r \in SinkReplies : ConnectCall(c, r)
    \/ \E c \in DOMAIN pc, r \in Ranges : DiscoverCall(c, r)
    \/ \E c \in DOMAIN pc : CallerStep(c)
    \/ \E c \in DOMAIN pc : ConnectSpuriousWake(c)
    \/ \E c \in DOMAIN pc : DiscoverSpuriousWake(c)
    \/ \E c \in DOMAIN pc : ConnectTimeout(c)
    \/ \E c \in DOMAIN pc : Return(c)

Spec == Init /\ [][Next]_vars

(* The connection state machine alone: the registry stays as constructed.   *)
(* A thread that keeps asking for a mutex gets it (SF: another thread may   *)
(* hold it in between), the notification thread runs a batch to its end,    *)
(* and the deadline of a timed wait passes.  Nothing obliges the transport  *)
(* to deliver a batch, a caller to call, or a sleeper to wake unnotified.   *)
LiveInit == InitWith(Waiters)

LiveNext ==
    \/ \E b \in Batches : UpdateBegin(b)
    \/ NotifStep
    \/ \E c \in DOMAIN pc, r \in SinkReplies : ConnectCall(c, r)
    \/ \E c \in DOMAIN pc, r \in Ranges : DiscoverCall(c, r)
    \/ \E c \in DOMAIN pc : CallerStep(c)
    \/ \E c \in DOMAIN pc : ConnectSpuriousWake(c)
    \/ \E c \in DOMAIN pc : DiscoverSpuriousWake(c)
    \/ \E c \in DOMAIN pc : ConnectTimeout(c)
    \/ \E c \in DOMAIN pc : Return(c)

LiveSpec ==
    /\ LiveInit
    /\ [][LiveNext]_vars
    /\ SF_vars(NotifStep)
    /\ \A c \in Waiters : SF_vars(CallerStep(c)) /\ SF_vars(ConnectTimeout(c))

(* The registry and its rebuild alone: add_attribute calls with any handle   *)
(* type, and batches that report the services resolved.                     *)
RangeInit == InitWith({})

ResolvedBatch == [connected |-> "absent", services_resolved |-> "true"]

RangeNext ==
    \/ \E h \in RegistryHandles, t \in AttributeTypes, u \in UUIDs : AddAttribute(h, t, u)
    \/ UpdateBegin(ResolvedBatch)
    \/ BuildStep
    \/ SetResolved
    \/ ResolvedNotify
    \/ UpdateEnd

RangeSpec == RangeInit /\ [][RangeNext]_vars

(* The GATT access operations over a registry of characteristics.         *)
GattInit == InitWith(Callers)

GattNext ==
    \/ \E h \in RegistryHandles, u \in GattUUIDs : AddAttribute(h, "Characteristic", u)
    \/ \E c \in DOMAIN pc, o \in GattOps, vh \in RegistryHandles : GattInvoke(c, o, vh)
    \/ \E c \in DOMAIN pc, r \in Ranges, u \in GattUUIDs : ReadByTypeInvoke(c, r, u)
    \/ \E c \in DOMAIN pc : ProxyFor(c)
    \/ \E c \in DOMAIN pc : ReadByTypeFind(c)
    \/ \E c \in DOMAIN pc, res \in SinkResults : SinkReply(c, res)
    \/ \E c \in DOMAIN pc : Return(c)

GattSpec == GattInit /\ [][GattNext]_vars

(* The registry, its rebuild and the device dropping in between.            *)
CacheInit == InitWith({})

DroppedBatch == [connected |-> "false", services_resolved |-> "absent"]

CacheNext ==
    \/ RangeNext
    \/ UpdateBegin(DroppedBatch)
    \/ UpdateConnected

CacheSpec == CacheInit /\ [][CacheNext]_vars

(* The subscription lifecycle.                                              *)
ListenInit == InitWith({})

ListenNext ==
    \/ \E res \in SinkResults : Listen(res)
    \/ \E res \in SinkResults : StopListening(res)

ListenSpec == ListenInit /\ [][ListenNext]_vars

(* The dispatch of the batches by their path, with a caller in connect().   *)
PathInit == InitWith(Callers)

PathNext ==
    \/ \E k \in PathKinds, b \in PropBatches : PropertiesChanged(k, b, NoProps)
    \/ NotifStep
    \/ UpdatePanic
    \/ \E c \in DOMAIN pc : ConnectCall(c, "Ok")
    \/ \E c \in DOMAIN pc : ConnectEnter(c)
    \/ \E c \in DOMAIN pc : ConnectWake(c)
    \/ \E c \in DOMAIN pc : ConnectTimeout(c)
    \/ \E c \in DOMAIN pc : Return(c)

PathSpec == PathInit /\ [][PathNext]_vars

(* The properties: batches of the peripheral's path with well-formed and    *)
(* malformed values, and a caller that reads the properties.                *)
PropsInit == InitWith(Callers)

\* the batches with at most one manufacturer entry
SmallPropArgs == {p \in PropArgs : Len(p.manufacturer_data.entries) <= 1}

PropsNext ==
    \/ \E b \in PropBatches, p \in SmallPropArgs : PropertiesChanged("own", b, p)
    \/ NotifStep
    \/ UpdatePanic
    \/ \E c \in DOMAIN pc : PropertiesCall(c)
    \/ \E c \in DOMAIN pc : IsConnectedCall(c)
    \/ \E c \in DOMAIN pc : Return(c)

PropsSpec == PropsInit /\ [][PropsNext]_vars

(* A device that drops while a caller discovers: the batches, a caller in   *)
(* discover_characteristics_in_range, and the fairness of LiveSpec.         *)
DropInit == InitWith(Callers)

DropNext ==
    \/ \E b \in Batches : PropertiesChanged("own", b, NoProps)
    \/ NotifStep
    \/ \E c \in DOMAIN pc, r \in Ranges : DiscoverCall(c, r)
    \/ \E c \in DOMAIN pc : CallerStep(c)
    \/ \E c \in DOMAIN pc : DiscoverSpuriousWake(c)
    \/ \E c \in DOMAIN pc : Return(c)

DropSpec ==
    /\ DropInit
    /\ [][DropNext]_vars
    /\ SF_vars(NotifStep)
    /\ \A c \in Callers : SF_vars(CallerStep(c))

(* The manufacturer data alone: batches that carry this one key.            *)
BlobInit == InitWith({})

ManufacturerArgs == {p \in PropArgs : p.address_type = "absent"}

BlobNext ==
    \/ \E p \in ManufacturerArgs : PropertiesChanged("own", NoBatch, p)
    \/ UpdateEnd
    \/ UpdatePanic

BlobSpec == BlobInit /\ [][BlobNext]_vars

(* Every operation of a caller that does not wait on itself (read_by_type   *)
(* is left to GattSpec), with the notification thread.                      *)
AllInit == InitWith(Callers)

AllNext ==
    \/ Next
    \/ \E c \in DOMAIN pc, res \in SinkResults : DisconnectCall(c, res)
    \/ \E c \in DOMAIN pc : IsConnectedCall(c)
    \/ \E c \in DOMAIN pc : PropertiesCall(c)
    \/ \E c \in DOMAIN pc : CharacteristicsCall(c)
    \/ \E c \in DOMAIN pc, o \in GattOps, vh \in Handles : GattInvoke(c, o, vh)
    \/ \E c \in DOMAIN pc : ProxyFor(c)
    \/ \E c \in DOMAIN pc, res \in SinkResults : SinkReply(c, res)

AllSpec == AllInit /\ [][AllNext]_vars

(* ================================================================ claims *)
\* the step in which caller c's connect() ends its wait on the deadline: the
\* sink accepted the command, no notification was processed, and the caller
\* returns from its sleep while the state is still below Connected
ConnectTimesOut(c) ==
    /\ pc[c] = "connect_sleep"
    /\ reply[c] = "Ok"
    /\ discovery_count = 0
    /\ pc'[c] = "done"
    /\ ConnectBlocks(state)

\* C1: a connect() whose command succeeded and whose wait reaches the deadline
\* with the state never raised to Connected returns the error TimedOut, and
\* the state is NotConnected afterwards.
C1_TimeoutReturnsTimedOut ==
    [][\A c \in DOMAIN pc :
          ConnectTimesOut(c) => ret'[c].err = "TimedOut" /\ state' = "NotConnected"]_vars

\* C2: a connect() that the sink answered with "already connected" never
\* waits on the connection state, whatever the state is.
C2_AlreadyConnectedNeverWaits ==
    \A c \in DOMAIN pc : reply[c] = "AlreadyConnected" => pc[c] # "connect_sleep"

\* every caller asleep in connect()'s wait while the state is Connected or
\* above has been notified, or is about to be (line 261 follows line 259)
ConnectSleepersNotified ==
    \A c \in Waiters :
        pc[c] = "connect_sleep" /\ ~ConnectBlocks(state) => woken[c] \/ npc = "notify"

\* C3: every caller blocked in connect()'s wait when the notification thread
\* raises the state to Connected is notified, wakes and returns success,
\* however many callers are blocked.
C3_ConnectWaitersReturn ==
    /\ []ConnectSleepersNotified
    /\ \A c \in Waiters :
          (pc[c] = "connect_sleep" /\ state = "Connected")
             ~> (pc[c] = "done" /\ ret[c] = Ret("connect", "Ok", {}))

\* all the callers are blocked in connect() and have just been notified of
\* the state Connected
C3_Witness ==
    /\ state = "Connected"
    /\ \A c \in Waiters : pc[c] = "connect_sleep" /\ woken[c]

\* the step in which caller c calls discover_characteristics_in_range
DiscoverIsCalled(c) ==
    /\ pc[c] = "idle"
    /\ \/ pc'[c] \in {"discover_sleep", "discover_read"}
       \/ pc'[c] = "done" /\ ret'[c].op = "discover"

\* C4: discover_characteristics_in_range called in state NotConnected returns
\* the error NotConnected in that very step, with no characteristics, whatever
\* the cached set holds.
C4_DiscoverNotConnected ==
    [][\A c \in DOMAIN pc :
          DiscoverIsCalled(c) /\ state = "NotConnected"
             => pc'[c] = "done" /\ ret'[c] = Ret("discover", "NotConnected", {})]_vars

C4_Witness ==
    \E c \in DOMAIN pc :
        /\ pc[c] = "done"
        /\ ret[c] = Ret("discover", "NotConnected", {})
        /\ state = "NotConnected"
        /\ characteristics # {}

\* the step in which caller c's discover_characteristics_in_range returns
DiscoverReturns(c) ==
    /\ pc[c] # "done"
    /\ pc'[c] = "done"
    /\ ret'[c].op = "discover"

\* C5: discover_characteristics_in_range never returns while the state is
\* Connected; it returns success only in state ServicesResolved, and then the
\* list is the set the last completed rebuild produced, filtered to the range.
C5_DiscoverSeesCompleteBuild ==
    [][\A c \in DOMAIN pc :
          DiscoverReturns(c)
             => /\ state # "Connected"
                /\ ret'[c].err = "Ok"
                      => /\ state = "ServicesResolved"
                         /\ ret'[c].val = InRange(lastBuild, range[c])]_vars

\* a non-empty list was returned while the notification thread is in the
\* middle of a later batch
C5_Witness ==
    \E c \in DOMAIN pc :
        /\ pc[c] = "done"
        /\ ret[c].op = "discover"
        /\ ret[c].err = "Ok"
        /\ ret[c].val # {}
        /\ npc \in {"build_clear", "build_services", "build_characteristics"}

\* the step in which build_characteristic_ranges returns
BuildCompletes == npc = "build_characteristics" /\ npc' = "set_resolved"

Overlap(a, b) == a.start_handle <= b.end_handle /\ b.start_handle <= a.end_handle

\* C6: the records of the set a rebuild produces have start_handle <=
\* end_handle and pairwise non-overlapping [start_handle, end_handle] ranges.
C6_RangesDisjoint ==
    [][BuildCompletes =>
          \A a, b \in characteristics' :
              /\ a.start_handle <= a.end_handle
              /\ a # b => ~Overlap(a, b)]_vars

\* the handles of the registry entries of type t
HandlesOfType(map, t) == {h \in DOMAIN map : map[h].typ = t}

Min(S) == CHOOSE x \in S : \A y \in S : x <= y

\* the ranges of one type's entries taken in ascending handle order: each
\* ends one below the next higher handle of the type, the highest at 0xFFFF
AscendingRanges(map, t) ==
    {[start_handle |-> h,
      end_handle |-> LET above == {k \in HandlesOfType(map, t) : k > h}
                     IN IF above = {} THEN U16Max ELSE Min(above) - 1,
      value_handle |-> h,
      uuid |-> map[h].uuid] : h \in HandlesOfType(map, t)}

\* C7: a rebuild gives the Service entries and the Characteristic entries the
\* ranges of two independent streams in ascending handle order, whatever the
\* order in which the registry map is iterated.
C7_RangesAscending ==
    [][BuildCompletes =>
          characteristics' = AscendingRanges(attributes_map, "Service")
                                \cup AscendingRanges(attributes_map, "Characteristic")]_vars

\* a GATT call of caller c that finds no registry entry to act on
NoEntryFor(c) ==
    \/ pc[c] = "proxy_for" /\ arg[c].value_handle \notin DOMAIN attributes_map
    \/ pc[c] = "find_map" /\ Matching(attributes_map, arg[c]) = {}

\* C8: a read_by_type that found a matching entry goes on to read it: the
\* lookup of the entry's path is not blocked by the registry mutex the call
\* itself holds.
C8_ReadByTypeReads ==
    \A c \in DOMAIN pc :
        /\ pc[c] = "proxy_for"
        /\ arg[c].via = "read_by_type"
        /\ locks["attributes_map"] \in {NoThread, c}
        => ENABLED ProxyFor(c)

\* C9: read, command and read_by_type with no registry entry to act on fail
\* with NotSupported("read"), NotSupported("write_without_response") and
\* NotSupported("read_by_type"); no command reaches the sink and nothing of
\* the peripheral changes.
C9_NotSupported ==
    [][\A c \in DOMAIN pc :
          NoEntryFor(c) /\ pc'[c] # pc[c]
             => /\ pc'[c] = "done"
                /\ ret'[c] = Ret(arg[c].via, NotSupported(arg[c].via), {})
                /\ call'[c] = NoCall
                /\ UNCHANGED <<state, attributes_map, characteristics,
                               discovery_count, locks, listen_token, matches>>]_vars

\* a read_by_type failed although the registry holds entries
C9_Witness ==
    \E c \in DOMAIN pc :
        /\ pc[c] = "done"
        /\ ret[c] = Ret("read_by_type", NotSupported("read_by_type"), {})
        /\ attributes_map # <<>>

\* the step of a stop_listening call
StopListeningCalled == calls' # calls /\ calls'[Len(calls')].op = "stop_listening"

\* C10 as stated: every stop_listening returns success; called with a token
\* stored it deregisters the subscription and clears the token, called with
\* none it issues no deregistration and changes nothing.
C10_StopAlwaysSucceeds ==
    [][StopListeningCalled =>
          LET r == calls'[Len(calls')]
          IN /\ r.err = "Ok"
             /\ IF listen_token # {}
                   THEN r.issued /\ listen_token' = {} /\ matches' = matches \ listen_token
                   ELSE ~r.issued /\ UNCHANGED <<listen_token, matches>>]_vars

\* C10, amended: a stop_listening called with a token stored asks the
\* transport to deregister; when the transport does, the call returns success
\* and the token is cleared, when it refuses, the call returns that error and
\* token and subscription stay.  Called with no token stored it returns
\* success, issues no deregistration and changes nothing.
C10_StopIdempotent ==
    [][StopListeningCalled =>
          LET r == calls'[Len(calls')]
          IN IF listen_token # {}
                THEN /\ r.issued
                     /\ r.err = "Ok" => listen_token' = {} /\ matches' = matches \ listen_token
                     /\ r.err # "Ok" => UNCHANGED <<listen_token, matches>>
                ELSE /\ r.err = "Ok"
                     /\ ~r.issued
                     /\ UNCHANGED <<listen_token, matches>>]_vars

\* listen, then stop_listening twice: both succeeded, the second a no-op
C10_Witness ==
    /\ calls = <<Called("listen", "Ok", TRUE),
                 Called("stop_listening", "Ok", TRUE),
                 Called("stop_listening", "Ok", FALSE)>>
    /\ listen_token = {}
    /\ matches = {}

\* the step in which the notification thread handles the "Connected" key
ConnectedProcessed == npc = "connected" /\ npc' # "connected"

\* C11: the peripheral starts NotConnected with an empty registry and an
\* empty characteristic set; processing connected=false sets the state to
\* NotConnected from any state, processing connected=true sets it to
\* Connected when it was NotConnected and leaves it alone otherwise.
C11_ConnectedTransitions ==
    /\ state = "NotConnected" /\ attributes_map = <<>> /\ characteristics = {}
    /\ [][ConnectedProcessed =>
             state' = IF args.connected = "false" THEN "NotConnected"
                      ELSE IF state = "NotConnected" THEN "Connected"
                      ELSE state]_vars

\* a connected=true was processed in ServicesResolved and left it
C11_Witness ==
    /\ npc = "rest"
    /\ args = [connected |-> "true", services_resolved |-> "absent"]
    /\ state = "ServicesResolved"

\* C12: the state moves to a lower one only in the step that processes a
\* connected=false; connected=true in ServicesResolved and a
\* services-resolved=false leave the state alone, and no step of a caller
\* (connect, disconnect, discover, read, write) changes it.
C12_MonotonicUnlessDisconnect ==
    [][/\ Rank(state') < Rank(state) => ConnectedProcessed /\ args.connected = "false"
       /\ ConnectedProcessed /\ args.connected = "true" /\ state = "ServicesResolved"
             => state' = state
       /\ npc # "idle" /\ npc' # npc /\ args.services_resolved = "false"
             /\ ~ConnectedProcessed => state' = state
       /\ pc' # pc => state' = state]_vars

\* a services-resolved=false was processed in ServicesResolved and left it
C12_Witness ==
    /\ npc = "rest"
    /\ args = [connected |-> "absent", services_resolved |-> "false"]
    /\ state = "ServicesResolved"

\* the notification thread and the callers
Threads == DOMAIN pc \cup {Notif}

\* the mutexes thread t holds before and after the step
HeldAround(t) == {l \in LockNames : locks[l] = t \/ locks'[l] = t}

\* the mutex thread t takes and drops within the step: the state mutex at
\* lines 236 and 259, the characteristics mutex at lines 453-455
TakenWithin(t) ==
    IF t = Notif
       THEN IF npc' # npc /\ ((npc = "connected" /\ args.connected \in {"true", "false"})
                               \/ npc = "set_resolved")
               THEN {"state"}
               ELSE {}
       ELSE IF pc[t] = "discover_read" /\ pc'[t] = "done"
               THEN {"characteristics"}
               ELSE {}

\* the notification thread is between the start of the rebuild and the
\* assignment of ServicesResolved
ResolvedHandling ==
    npc \in {"build", "build_clear", "build_services", "build_characteristics",
             "set_resolved"}

\* C13: in no step does a thread hold more than one of the four mutexes,
\* except the notification thread between the rebuild and the change of the
\* state to ServicesResolved.
C13_OneLockAtATime ==
    [][\A t \in Threads :
          Cardinality(HeldAround(t) \cup TakenWithin(t)) > 1
             => t = Notif /\ ResolvedHandling]_vars

\* the step in which update_properties ends, by returning or by panicking
BatchEnds == npc # "idle" /\ npc' = "idle"

\* the step in which caller c's properties() ends
PropertiesReturns(c) == pc[c] = "idle" /\ pc'[c] = "done" /\ ret'[c].op = "properties"

\* C14: whatever value of a batch is malformed, the batch's address type is
\* applied (the default variant for one that does not parse) and its
\* well-formed manufacturer data stored, the properties mutex stays usable,
\* and every later properties() succeeds.
C14_MalformedValueIsolated ==
    [][/\ BatchEnds =>
             /\ pargs.address_type # "absent" =>
                   properties'.address_type =
                      IF pargs.address_type = "random" THEN "Random" ELSE "Default"
             /\ pargs.manufacturer_data.kind # "absent"
                   /\ ~ManufacturerPanics(pargs.manufacturer_data)
                   => properties'.manufacturer_data # {}
             /\ ~poisoned'
       /\ \A c \in DOMAIN pc : PropertiesReturns(c) => ret'[c].err = "Ok"]_vars

\* the 16-bit id as two bytes low byte first, then the payload
EntryBytes(e) == <<e.id - 256 * (e.id \div 256), e.id \div 256>> \o e.data

\* the concatenation of the entries' bytes, first entry first
RECURSIVE Concatenation(_)
Concatenation(entries) ==
    IF entries = <<>> THEN <<>>
    ELSE EntryBytes(Head(entries)) \o Concatenation(Tail(entries))

\* C15: a manufacturer-data update stores the concatenation, per entry, of
\* the id as two bytes low byte first and the payload bytes unchanged, in
\* place of whatever blob was stored before.
C15_ManufacturerBlob ==
    [][BatchEnds /\ ~poisoned' /\ pargs.manufacturer_data.kind = "dict"
          => properties'.manufacturer_data =
                {Concatenation(pargs.manufacturer_data.entries)}]_vars

\* the second batch stored id 0x1234 with payload [0xAA, 0xBB], then id
\* 0x00FF with no payload
C15_Witness ==
    /\ discovery_count = 2
    /\ npc = "idle"
    /\ properties.manufacturer_data = {<<52, 18, 170, 187, 255, 0>>}

\* C16: a caller blocked in discover_characteristics_in_range when a
\* connected=false is processed (it sleeps, notified, and the state is
\* NotConnected) returns the error NotConnected, whatever notification
\* follows before it re-checks the state.
C16_DiscoverAbortsOnDrop ==
    \A c \in Callers :
        (pc[c] = "discover_sleep" /\ woken[c] /\ state = "NotConnected")
           ~> (pc[c] = "done" /\ ret[c] = Ret("discover", "NotConnected", {}))

\* the handles of the registry entries typed Service or Characteristic
RangedHandles(map) == {h \in DOMAIN map : map[h].typ \in {"Service", "Characteristic"}}

\* C17: the set a rebuild leaves holds exactly one record per registry entry
\* typed Service or Characteristic, with start_handle = value_handle = the
\* entry's handle and the entry's UUID, and nothing else; the cached set
\* changes in no step but those of a rebuild for services-resolved=true.
C17_RebuildReplacesCache ==
    [][/\ BuildCompletes =>
             /\ {<<r.start_handle, r.value_handle, r.uuid>> : r \in characteristics'}
                   = {<<h, h, attributes_map[h].uuid>> : h \in RangedHandles(attributes_map)}
             /\ Cardinality(characteristics') = Cardinality(RangedHandles(attributes_map))
       /\ characteristics' # characteristics =>
             /\ npc \in {"build_clear", "build_services", "build_characteristics"}
             /\ args.services_resolved = "true"
       /\ attributes_map' # attributes_map => characteristics' = characteristics]_vars

\* a rebuild over a Service (or Characteristic), a Descriptor and an Unknown
\* entry left one record
C17_Witness ==
    /\ npc = "set_resolved"
    /\ Cardinality(characteristics) = 1
    /\ \E h \in DOMAIN attributes_map : attributes_map[h].typ = "Descriptor"
    /\ \E h \in DOMAIN attributes_map : attributes_map[h].typ = "Unknown"

\* the step in which properties_changed is called with a path of kind k
Delivered(k) == delivered' # delivered /\ delivered'[2] = k

\* the step changes nothing of the peripheral and wakes nobody
NothingChanges ==
    UNCHANGED <<discovery_count, properties, poisoned, state, attributes_map,
                characteristics, woken, locks, npc>>

Wants(t) ==
    IF t = Notif
       THEN CASE npc \in {"connected", "set_resolved"} -> "state"
              [] npc = "build" -> "attributes_map"
              [] npc = "build_clear" -> "characteristics"
              [] OTHER -> "none"
       ELSE CASE pc[t] = "connect_wait" -> "state"
              [] pc[t] \in {"connect_sleep", "discover_sleep"} /\ woken[t] -> "state"
              [] pc[t] = "discover_read" -> "characteristics"
              [] pc[t] = "proxy_for" -> "attributes_map"
              [] OTHER -> "none"

\* every thread of S waits for a mutex that a thread of S holds
WaitOnEachOther(S) ==
    /\ S # {}
    /\ \A t \in S : Wants(t) # "none" /\ locks[Wants(t)] \in S

\* an order of the mutexes: properties, then the registry and the state,
\* then the characteristic set
LockRank(l) ==
    CASE l = "properties" -> 0
      [] l \in {"attributes_map", "state"} -> 1
      [] l = "characteristics" -> 2

\* the mutexes thread t takes in the step
TakenInStep(t) ==
    {l \in LockNames : locks[l] # t /\ locks'[l] = t} \cup TakenWithin(t)

\* C19: no set of threads waits on each other's mutexes, and every thread
\* that takes a mutex while it holds another takes them in one order:
\* properties before the registry and the state, these before the
\* characteristic set.
C19_NoLockCycle ==
    /\ [](\A S \in SUBSET Threads : ~WaitOnEachOther(S))
    /\ [][\A t \in Threads :
             \A a \in {l \in LockNames : locks[l] = t}, b \in TakenInStep(t) :
                 LockRank(a) < LockRank(b)]_vars

\* a caller in discover holds the state mutex and waits for the
\* characteristic set, which the notification thread holds for a rebuild
C19_Witness ==
    \E c \in DOMAIN pc :
        /\ pc[c] = "discover_read"
        /\ locks["state"] = c
        /\ locks["characteristics"] = Notif

\* C20: is_connected() turns from false to true only in the step that
\* processes a connected=true; no other notification, services-resolved=true
\* in NotConnected included, makes the peripheral report connected.
C20_ConnectedOnlyAfterConnectedTrue ==
    [][~IsConnected(state) /\ IsConnected(state')
          => ConnectedProcessed /\ args.connected = "true"]_vars

\* the last call recorded was a stop_listening that returned success
StoppedLast ==
    /\ calls # <<>>
    /\ calls[Len(calls)].op = "stop_listening"
    /\ calls[Len(calls)].err = "Ok"

\* C21: after a sequence of listen and stop_listening calls that ends with a
\* successful stop_listening, no match rule registered by the peripheral is
\* left at the transport.
C21_NoSubscriptionAfterStop == StoppedLast => matches = {}

====
